---- MODULE Spec2Model ----
(***************************************************************************)
(* Model of src/main.py: the storage-triggered entry point that loads      *)
(* base_legal/base_geral workbooks in full into the table base_geral and   *)
(* every other .xlsx workbook incrementally into the table qgc.            *)
(*                                                                         *)
(* Text is a sequence of one-character strings wherever the code looks     *)
(* inside it (strip, lower, basename, endswith, _slug); Join turns such a  *)
(* sequence into the string that is written to a table.                    *)
(***************************************************************************)
EXTENDS Bags, FiniteSets, Integers, Sequences, TLC

\* ------------------------------------------------------------------ bounds
MaxInv == 2        \* invocations of entryPoint that may run (concurrently)
MaxClock == 1      \* the wall clock (seconds) runs 0..MaxClock
MaxDataRows == 1   \* data rows below the first row of a generated sheet

\* ------------------------------------------------------------- small tools
Range(s) == {s[i] : i \in DOMAIN s}
Min(a, b) == IF a < b THEN a ELSE b
Max(a, b) == IF a > b THEN a ELSE b

RECURSIVE Join(_)
Join(s) == IF s = <<>> THEN "" ELSE s[1] \o Join(Tail(s))

RECURSIVE SelectIdx(_, _, _)
\* the indexes i of 1..n (ascending) for which keep[i]
SelectIdx(n, keep, i) ==
    IF i > n THEN <<>>
    ELSE (IF keep[i] THEN <<i>> ELSE <<>>) \o SelectIdx(n, keep, i + 1)

Lowers == <<"a","b","c","d","e","f","g","h","i","j","k","l","m",
            "n","o","p","q","r","s","t","u","v","w","x","y","z">>
Uppers == <<"A","B","C","D","E","F","G","H","I","J","K","L","M",
            "N","O","P","Q","R","S","T","U","V","W","X","Y","Z">>
DigitChars == <<"0","1","2","3","4","5","6","7","8","9">>

Accented == {"Ã", "ã", "ç", "é", "í", "õ"}
IsAscii(c) == c \in Range(Lowers) \cup Range(Uppers)
\* str.isalpha: letters, accented letters and the ordinal indicator
IsAlpha(c) == IsAscii(c) \/ c \in Accented \/ c = "º"
IsDigit(c) == c \in Range(DigitChars)
IsAlnum(c) == IsAlpha(c) \/ IsDigit(c)
IsSpace(c) == c = " "

LowerChar(c) ==
    IF c \in Range(Uppers)
    THEN Lowers[CHOOSE i \in DOMAIN Uppers : Uppers[i] = c]
    ELSE c
Lower(s) == [i \in DOMAIN s |-> LowerChar(s[i])]

RECURSIVE LStrip(_)
LStrip(s) == IF s # <<>> /\ IsSpace(s[1]) THEN LStrip(Tail(s)) ELSE s
RECURSIVE RStrip(_)
RStrip(s) ==
    IF s # <<>> /\ IsSpace(s[Len(s)]) THEN RStrip(SubSeq(s, 1, Len(s) - 1)) ELSE s
Strip(s) == RStrip(LStrip(s))

EndsWith(s, suf) ==
    Len(s) >= Len(suf) /\ SubSeq(s, Len(s) - Len(suf) + 1, Len(s)) = suf
StartsWith(s, pre) == Len(s) >= Len(pre) /\ SubSeq(s, 1, Len(pre)) = pre
Contains(s, sub) ==
    \E i \in 1..(Len(s) - Len(sub) + 1) : SubSeq(s, i, i + Len(sub) - 1) = sub

\* os.path.basename: what follows the last "/"
Basename(s) ==
    LET cuts == {i \in DOMAIN s : s[i] = "/"}
    IN  IF cuts = {} THEN s
        ELSE SubSeq(s, (CHOOSE i \in cuts : \A j \in cuts : j <= i) + 1, Len(s))

RECURSIVE Digits(_)
\* str(n) of a natural number, as characters
Digits(n) == IF n < 10 THEN <<DigitChars[n + 1]>>
             ELSE Digits(n \div 10) \o <<DigitChars[(n % 10) + 1]>>

\* ----------------------------------------------------------- cell values
\* What pandas holds in a cell: NaN, a str, an int, or a float with an
\* integral value (an int read into a column that also holds NaN).
NULL == "<null>"
NaN == [k |-> "nan"]
Str(s) == [k |-> "str", v |-> s]
Int_(n) == [k |-> "int", v |-> n]
Flt(n) == [k |-> "float", v |-> n]
IsNaN(v) == v.k = "nan"

\* str(v) for the values above
PyStr(v) ==
    CASE v.k = "str" -> v.v
      [] v.k = "int" -> Digits(v.v)
      [] v.k = "float" -> Digits(v.v) \o <<".", "0">>

to_str_or_none(v) ==
    IF IsNaN(v) THEN NULL
    ELSE LET s == Strip(PyStr(v))
         IN  IF s # <<>> THEN Join(s) ELSE NULL


\* ------------------------------------------------------------------ CONFIG
BASE_FIXED_COLUMNS == <<
    "empresa", "id", "sem_arquivos_digitais",
    "com_qgc_feito", "tipo_de_sociedade", "capital_aberto",
    "setor_de_atuacao", "subsetor", "estado",
    "cidade", "estado2", "vara",
    "vara_especializada", "pericia_previa", "empresa_pericia_previa",
    "advogado", "consultoria_assessoria_financeira_reestruturacao", "substituicao_do_aj",
    "destituicao_do_aj", "_1o_administrador_judicial", "_2o_administrador_judicial",
    "_3o_administrador_judicial", "tipo", "consolidacao_substancial",
    "tamanho_aproximado_da_rj_valor_da_divida_declarado_nos_documentos_iniciais", "passivo_apurado_pelo_aj_no_qgc_do_art_7o_2o", "modalidade_de_remuneracao_do_aj",
    "remuneracao_aj_do_passivo", "remuneracao_aj_valor_total", "remuneracao_aj_r_parcelas_mensais_honorarios_provisorios",
    "remuneracao_aj_r_parcelas_mensais_honorarios_definitivos", "quantidade_de_assembleias_para_aprovacao", "houve_apresentacao_de_plano_pelos_credores",
    "n_processo", "link_processo", "link_logo",
    "link_ri_outros", "termos", "informacoes",
    "data_de_manipulacao", "segredo_de_justica", "processo_fisico_ou_digital",
    "revisao", "status_do_processo"
>>

QGC_COLUMNS == <<
    "GRUPO", "EMPRESA", "FONTE", "CLASSE", "SUBCLASSE", "CREDOR",
    "MOEDA", "VALOR", "DATA", "NOMEARQUIVO", "DATAIMPLEMENTACAO"
>>

HEADER_ALIASES == <<
    <<"empresa", "empresa">>,
    <<"id", "id">>,
    <<"sem_arquivos_digitais", "sem_arquivos_digitais">>,
    <<"com_qgc_feito", "com_qgc_feito">>,
    <<"capital_aberto", "capital_aberto">>,
    <<"setor_de_atuacao", "setor_de_atuacao">>,
    <<"subsetor", "subsetor">>,
    <<"estado", "estado">>,
    <<"cidade", "cidade">>,
    <<"estado2", "estado2">>,
    <<"vara", "vara">>,
    <<"vara_especializada", "vara_especializada">>,
    <<"pericia_previa", "pericia_previa">>,
    <<"empresa_pericia_previa", "empresa_pericia_previa">>,
    <<"advogado", "advogado">>,
    <<"consultoria_assessoria_financeira_reestruturacao",
      "consultoria_assessoria_financeira_reestruturacao">>,
    <<"substituicao_do_aj", "substituicao_do_aj">>,
    <<"destituicao_do_aj", "destituicao_do_aj">>,
    <<"1o_administrador_judicial", "_1o_administrador_judicial">>,
    <<"2o_administrador_judicial", "_2o_administrador_judicial">>,
    <<"3o_administrador_judicial", "_3o_administrador_judicial">>,
    <<"tipo", "tipo">>,
    <<"tamanho_aproximado_da_rj_valor_da_divida_declarado_nos_documentos_iniciais",
      "tamanho_aproximado_da_rj_valor_da_divida_declarado_nos_documentos_iniciais">>,
    <<"passivo_apurado_pelo_aj_no_qgc_do_art_7o_2o",
      "passivo_apurado_pelo_aj_no_qgc_do_art_7o_2o">>,
    <<"modalidade_de_remuneracao_do_aj",
      "modalidade_de_remuneracao_do_aj">>,
    <<"remuneracao_aj_pct_do_passivo", "remuneracao_aj_do_passivo">>,
    <<"remuneracao_aj_do_passivo", "remuneracao_aj_do_passivo">>,
    <<"remuneracao_aj_valor_total", "remuneracao_aj_valor_total">>,
    <<"remuneracao_aj_rs_parcelas_mensais_honorarios_provisorios",
      "remuneracao_aj_r_parcelas_mensais_honorarios_provisorios">>,
    <<"remuneracao_aj_rs_parcelas_mensais_honorarios_definitivos",
      "remuneracao_aj_r_parcelas_mensais_honorarios_definitivos">>,
    <<"quantidade_de_assembleias_para_aprovacao",
      "quantidade_de_assembleias_para_aprovacao">>,
    <<"houve_apresentacao_de_plano_pelos_credores",
      "houve_apresentacao_de_plano_pelos_credores">>,
    <<"n_processo", "n_processo">>,
    <<"link_processo", "link_processo">>,
    <<"link_logo", "link_logo">>,
    <<"link_ri_outros", "link_ri_outros">>,
    <<"termos", "termos">>,
    <<"informacoes", "informacoes">>,
    <<"data_de_manipulacao", "data_de_manipulacao">>,
    <<"segredo_de_justica", "segredo_de_justica">>,
    <<"processo_fisico_ou_digital", "processo_fisico_ou_digital">>,
    <<"revisao", "revisao">>,
    <<"status_processo", "status_do_processo">>,
    <<"uf", "estado">>,
    <<"numero_do_processo", "n_processo">>,
    <<"_1o_administrador_judicial", "_1o_administrador_judicial">>,
    <<"_2o_administrador_judicial", "_2o_administrador_judicial">>,
    <<"_3o_administrador_judicial", "_3o_administrador_judicial">>
>>

QGC_BASE_CNT == 9

AliasKeys == {HEADER_ALIASES[i][1] : i \in DOMAIN HEADER_ALIASES}
AliasOf(k) == HEADER_ALIASES[CHOOSE i \in DOMAIN HEADER_ALIASES : HEADER_ALIASES[i][1] = k][2]

\* ---------------------------------------------------------------- _slug
\* unicodedata.normalize("NFKD") followed by the removal of combining marks
Unaccent(c) ==
    CASE c = "Ã" -> "A" [] c = "ã" -> "a" [] c = "ç" -> "c" [] c = "é" -> "e"
      [] c = "í" -> "i" [] c = "õ" -> "o"
      [] OTHER -> c

RECURSIVE ReplaceRS(_)
\* s.replace("R$", "rs")
ReplaceRS(s) ==
    IF s = <<>> THEN <<>>
    ELSE IF Len(s) >= 2 /\ s[1] = "R" /\ s[2] = "$"
         THEN <<"r", "s">> \o ReplaceRS(SubSeq(s, 3, Len(s)))
         ELSE <<s[1]>> \o ReplaceRS(Tail(s))

\* the single-character replacements, in the order the code applies them
SlugChar(c) ==
    CASE c = "º" \/ c = "°" -> <<"o">>
      [] c = "%" -> <<"p", "c", "t">>
      [] c = "/" -> <<"_">>
      [] c = "-" -> <<" ">>
      [] c = "§" -> <<"s">>
      [] OTHER -> <<Unaccent(c)>>

RECURSIVE FlatMapSlug(_)
FlatMapSlug(s) == IF s = <<>> THEN <<>> ELSE SlugChar(s[1]) \o FlatMapSlug(Tail(s))

\* alphanumerics are lowered, everything else becomes "_"
SlugOut(c) == IF IsAlnum(c) THEN LowerChar(c) ELSE "_"

RECURSIVE SplitJoin(_)
\* "_".join(filter(None, s.split("_")))
SplitJoin(s) ==
    IF s = <<>> THEN <<>>
    ELSE IF s[1] = "_" THEN SplitJoin(Tail(s))
    ELSE LET stops == {i \in DOMAIN s : s[i] = "_"}
             n == IF stops = {} THEN Len(s)
                  ELSE (CHOOSE i \in stops : \A j \in stops : i <= j) - 1
             rest == SplitJoin(SubSeq(s, n + 1, Len(s)))
         IN  SubSeq(s, 1, n) \o (IF rest = <<>> THEN <<>> ELSE <<"_">> \o rest)

_slug(s) ==
    LET t == FlatMapSlug(ReplaceRS(Strip(s)))
    IN  SplitJoin([i \in DOMAIN t |-> SlugOut(t[i])])

\* ------------------------------------------------------- header mapping
Administrador == <<"a","d","m","i","n","i","s","t","r","a","d","o","r">>

\* the target column of one header label, or NULL when nothing matches
HeaderTarget(label) ==
    LET s == _slug(PyStr(label))
        j == Join(s)
    IN  IF j \in AliasKeys THEN AliasOf(j)
        ELSE IF j \in Range(BASE_FIXED_COLUMNS) THEN j
        ELSE IF StartsWith(s, <<"1">>) /\ Contains(s, Administrador)
             THEN "_1o_administrador_judicial"
        ELSE IF StartsWith(s, <<"2">>) /\ Contains(s, Administrador)
             THEN "_2o_administrador_judicial"
        ELSE IF StartsWith(s, <<"3">>) /\ Contains(s, Administrador)
             THEN "_3o_administrador_judicial"
        ELSE NULL

\* idx -> target column (NULL: the index is not in the dict)
_map_headers_to_targets(cols) == [i \in DOMAIN cols |-> HeaderTarget(cols[i])]

_looks_like_header(row0) ==
    LET texts == Cardinality({i \in DOMAIN row0 :
                     row0[i].k = "str" /\ \E j \in DOMAIN row0[i].v : IsAlpha(row0[i].v[j])})
    IN  texts >= Max(3, (Len(row0) * 4) \div 10)


\* ------------------------------------------------------------ read_excel
\* A sheet is a sequence of rows of equal width; a row is a sequence of the
\* cells as stored in the workbook (NaN for a blank cell, Str, Int_).
Width(grid) == IF grid = <<>> THEN 0 ELSE Len(grid[1])

\* pandas' column types: an int column that also holds a blank is read as
\* float64; a column holding any text keeps its values as they are.
Infer(rows) ==
    LET hasNaN(c) == \E r \in DOMAIN rows : rows[r][c].k = "nan"
        hasStr(c) == \E r \in DOMAIN rows : rows[r][c].k = "str"
    IN  [r \in DOMAIN rows |->
            [c \in DOMAIN rows[r] |->
                IF rows[r][c].k = "int" /\ hasNaN(c) /\ ~hasStr(c)
                THEN Flt(rows[r][c].v) ELSE rows[r][c]]]

NotBlankRow(r) == \E i \in DOMAIN r : ~IsNaN(r[i])
\* df.dropna(how="all"); df.reset_index(drop=True)
DropBlankRows(rows) == SelectSeq(rows, NotBlankRow)

\* the column labels pd.read_excel(header=0) makes of the first row
Unnamed(i) == Str(<<"U","n","n","a","m","e","d",":"," ">> \o Digits(i))
HeaderLabels(grid) ==
    IF grid = <<>> THEN <<>>
    ELSE [i \in DOMAIN grid[1] |->
            IF IsNaN(grid[1][i]) THEN Unnamed(i - 1) ELSE grid[1][i]]

\* ----------------------------------------- process_qgc_incremental (frame)
\* A data frame: the column labels (0-based positions of the sheet, -1 for
\* "__SUBCLASSE_MISSING__") and the rows.
SUBCLASSE_MISSING == -1

Project(df, idx) ==
    [labels |-> [i \in DOMAIN idx |-> df.labels[idx[i]]],
     rows |-> [r \in DOMAIN df.rows |-> [i \in DOMAIN idx |-> df.rows[r][idx[i]]]]]

\* df.dropna(axis=1, how="all")
DropBlankCols(df) ==
    LET n == Len(df.labels)
        keep == [c \in 1..n |-> \E r \in DOMAIN df.rows : ~IsNaN(df.rows[r][c])]
    IN  Project(df, SelectIdx(n, keep, 1))

\* df.insert(4, "__SUBCLASSE_MISSING__", None)
InsertSubclasse(df) ==
    [labels |-> SubSeq(df.labels, 1, 4) \o <<SUBCLASSE_MISSING>> \o SubSeq(df.labels, 5, 8),
     rows |-> [r \in DOMAIN df.rows |->
                 SubSeq(df.rows[r], 1, 4) \o <<NaN>> \o SubSeq(df.rows[r], 5, 8)]]

\* df[df.shape[1]] = None: a new column when no column carries that label,
\* otherwise the column of that label is overwritten
SetNone(df) ==
    LET l == Len(df.labels)
    IN  IF l \in Range(df.labels)
        THEN [df EXCEPT !.rows =
                [r \in DOMAIN df.rows |->
                    [c \in DOMAIN df.labels |->
                        IF df.labels[c] = l THEN NaN ELSE df.rows[r][c]]]]
        ELSE [labels |-> Append(df.labels, l),
              rows |-> [r \in DOMAIN df.rows |-> Append(df.rows[r], NaN)]]

RECURSIVE PadCols(_, _)
\* for _ in range(k): df[df.shape[1]] = None
PadCols(df, k) == IF k <= 0 THEN df ELSE PadCols(SetNone(df), k - 1)

\* now_str: the clock's seconds as "%H:%M:%S"
NowStr(t) == <<"0","0",":","0","0",":">> \o (IF t < 10 THEN <<"0">> ELSE <<>>) \o Digits(t)

\* lines 339-371: the frame sent to staging, or ok = FALSE where the code
\* raises (df.columns = ... with a number of columns other than 9)
QgcFrame(grid, base_name, now) ==
    LET all == Infer(grid)
        r1 == DropBlankRows(all)
        r2 == IF Len(r1) >= 1 THEN Tail(r1) ELSE r1
        df0 == [labels |-> [i \in 1..Width(grid) |-> i - 1], rows |-> r2]
        df1 == IF Len(df0.labels) > 0 THEN DropBlankCols(df0) ELSE df0
        df2 == IF Len(df1.labels) = 8 THEN InsertSubclasse(df1) ELSE df1
        df3 == IF Len(df2.labels) < QGC_BASE_CNT
               THEN PadCols(df2, QGC_BASE_CNT - Len(df2.labels)) ELSE df2
        df4 == IF Len(df3.labels) > QGC_BASE_CNT
               THEN Project(df3, [i \in 1..QGC_BASE_CNT |-> i]) ELSE df3
        full(r) == df4.rows[r] \o <<Str(base_name), Str(NowStr(now))>>
    IN  IF Len(df4.labels) # QGC_BASE_CNT
        THEN [ok |-> FALSE, rows |-> <<>>]
        ELSE [ok |-> TRUE,
              rows |-> [r \in DOMAIN df4.rows |->
                  [n \in Range(QGC_COLUMNS) |->
                      to_str_or_none(full(r)[CHOOSE i \in DOMAIN QGC_COLUMNS :
                                                  QGC_COLUMNS[i] = n])]]]

\* ------------------------------------------- process_base_fixed (frame)
\* (what the code would do if it dropped the first row as a caption)
HeaderlessRowsNoCaption(grid) ==
    LET rows == DropBlankRows(Infer(grid))
    IN  IF rows = <<>> THEN rows ELSE Tail(rows)

\* lines 272-274: the sheet read again with header=None, first row included
HeaderlessRows(grid) == DropBlankRows(Infer(grid))

\* lines 261-290: one row of len(BASE_FIXED_COLUMNS) strings per data row
BaseFrame(grid) ==
    LET labels == HeaderLabels(grid)
        use_header == _looks_like_header(labels)
        df == IF use_header
              THEN DropBlankRows(Infer(IF grid = <<>> THEN <<>> ELSE Tail(grid)))
              ELSE HeaderlessRows(grid)
        header_mapping ==
            IF use_header THEN _map_headers_to_targets(labels)
            ELSE [i \in 1..Min(Width(grid), Len(BASE_FIXED_COLUMNS)) |-> BASE_FIXED_COLUMNS[i]]
        \* a later source column overwrites an earlier one with the same target
        src(t) == {i \in DOMAIN header_mapping : header_mapping[i] = BASE_FIXED_COLUMNS[t]}
        top(t) == CHOOSE i \in src(t) : \A j \in src(t) : j <= i
    IN  [r \in DOMAIN df |->
            [t \in DOMAIN BASE_FIXED_COLUMNS |->
                IF src(t) = {} THEN NULL ELSE to_str_or_none(df[r][top(t)])]]


\* ------------------------------------------------------------- workbooks
\* the text of the cell in row r, column c of a generated sheet: "b7"
Cell(r, c) == Str(<<Lowers[r]>> \o Digits(c))

\* a sheet of h rows and w columns whose cells in `blank` are empty
Grid(h, w, blank) ==
    [r \in 1..h |-> [c \in 1..w |-> IF <<r, c>> \in blank THEN NaN ELSE Cell(r, c)]]

\* the header tokens of a ledger workbook, as typed in its first row
QgcHeader == <<
    Str(<<"G","R","U","P","O">>),
    Str(<<"E","M","P","R","E","S","A">>),
    Str(<<"F","O","N","T","E">>),
    Str(<<"C","L","A","S","S","E">>),
    Str(<<"S","U","B","C","L","A","S","S","E">>),
    Str(<<"C","R","E","D","O","R">>),
    Str(<<"M","O","E","D","A">>),
    Str(<<"V","A","L","O","R">>),
    Str(<<"D","A","T","A">>)
>>
Without(s, i) == SubSeq(s, 1, i - 1) \o SubSeq(s, i + 1, Len(s))
InsertAt(s, i, e) == SubSeq(s, 1, i - 1) \o <<e>> \o SubSeq(s, i, Len(s))
DataRow(r, w) == [c \in 1..w |-> Cell(r, c)]

\* the workbooks an upload may hold
Sheets == <<
    <<QgcHeader, DataRow(2, 9)>>,                 \* ledger, SUBCLASSE present
    <<Without(QgcHeader, 5), DataRow(3, 8)>>,     \* ledger, SUBCLASSE omitted
    <<InsertAt(QgcHeader, 3, Str(<<"O","B","S">>)), DataRow(4, 10)>>,
                                                  \* ledger, a column too many
    <<[c \in 1..9 |-> NaN]>>,                     \* nothing but a blank row
    << <<Str(<<"U","F">>), Str(<<"I","D">>), Str(<<"V","a","r","a">>)>>,
       <<Cell(5, 1), Int_(7), Cell(5, 3)>> >>     \* master, header row
>>

\* the workbook of the load that an established project starts with
PriorSheet == << <<Int_(1), Int_(2), Cell(1, 3)>>,
                <<Cell(2, 1), Cell(2, 2), NaN>> >>

\* the storage events; <<>> stands for a key that is missing (or empty)
XLSX == <<".", "x", "l", "s", "x">>
Events == <<
    [bucket |-> <<>>,    name |-> <<"a">> \o XLSX],
    [bucket |-> <<"b">>, name |-> <<>>],
    [bucket |-> <<"b">>, name |-> <<"b","a","s","e","_","g","e","r","a","l">> \o XLSX],
    [bucket |-> <<"b">>, name |-> <<"x","/","B","a","s","e","_","L","e","g","a","l",".","X","L","S","X">>],
    [bucket |-> <<"b">>, name |-> <<"a">> \o XLSX],
    [bucket |-> <<"b">>, name |-> <<"x","/","b",".","X","L","S","X">>],
    [bucket |-> <<"b">>, name |-> <<"x","/"," ","a">> \o XLSX],
    [bucket |-> <<"b">>, name |-> <<"a",".","t","x","t">>]
>>

BASE_LEGAL == <<"b","a","s","e","_","l","e","g","a","l">> \o XLSX
BASE_GERAL == <<"b","a","s","e","_","g","e","r","a","l">> \o XLSX

\* ------------------------------------------------------------ wait_job
\* _default_retry: every exception is retried; the n-th sleep lasts
\* min(initial * multiplier^n, maximum) and the loop gives up once the next
\* sleep would end after the deadline.
RetryInitial == 1
RetryMaximum == 10
RetryMultiplier == 2
RetryDeadline == 120

RECURSIVE Delay(_)
Delay(n) == IF n = 0 THEN RetryInitial
            ELSE Min(Delay(n - 1) * RetryMultiplier, RetryMaximum)
RECURSIVE Elapsed(_)
\* the time slept before call number n + 1
Elapsed(n) == IF n = 0 THEN 0 ELSE Elapsed(n - 1) + Delay(n - 1)

\* predicate=if_exception_type(Exception)
Retryable(kind) == TRUE
\* after n sleeps another failure is followed by one more sleep
CanRetry(n) == Elapsed(n) + Delay(n) <= RetryDeadline

\* ------------------------------------------------------------------ state
Invocations == 1..MaxInv

VARIABLES
    pc,          \* where each invocation of entryPoint stands
    ev,          \* its event (an index of Events; 0 before it starts)
    sh,          \* the workbook it downloaded (an index of Sheets; 0: none)
    now,         \* the clock it read for now_str
    err,         \* the exception it last met ("" none)
    audit,       \* what log_status did for it: "", "SUCESSO", "ERRO", "lost"
    stage,       \* its staging table _qgc_stage_<uniq> (a bag of rows)
    clock,       \* the wall clock
    dataset,     \* the dataset exists
    status_table,\* the table status_implantacao exists
    status_rows, \* its rows (a bag)
    qgc_table,   \* the table qgc exists
    qgc,         \* its rows (a bag)
    base_geral,  \* the rows of the table base_geral (a bag)
    grid,        \* frame specification: the sheet given to the frame builders
    qframe,      \* frame specification: <<QgcFrame of grid>>, <<>> before
    bframe,      \* frame specification: <<BaseFrame of grid>>, <<>> before
    wjob,        \* wait_job specification: the job waited for ("" none)
    wstate,      \* wait_job: "call", "sleep", "returned" or "raised"
    wsleeps,     \* wait_job: the sleeps made so far
    wslept,      \* wait_job: the seconds slept so far
    werr         \* wait_job: the exception job.result() last raised ("" none)

mvars == <<pc, ev, sh, now, err, audit, stage, clock, dataset,
           status_table, status_rows, qgc_table, qgc, base_geral>>
fvars == <<grid, qframe, bframe>>
wvars == <<wjob, wstate, wsleeps, wslept, werr>>
vars == <<mvars, fvars, wvars>>

RECURSIVE BagOfSeq(_)
BagOfSeq(s) == IF s = <<>> THEN EmptyBag ELSE SetToBag({s[1]}) (+) BagOfSeq(Tail(s))

Name(p) == Events[ev[p]].name
Base(p) == Basename(Name(p))
IsBase(b) == Lower(b) \in {BASE_LEGAL, BASE_GERAL}
IsXlsx(b) == EndsWith(Lower(b), XLSX)

\* lines 429-447: where entryPoint goes once the status table is there
Dispatch(b) == IF IsBase(b) THEN "base_fetch"
               ELSE IF IsXlsx(b) THEN "qgc_fetch"
               ELSE "done"

PriorLoad == BagOfSeq(BaseFrame(PriorSheet))

Fresh ==
    /\ dataset = FALSE /\ status_table = FALSE /\ qgc_table = FALSE
    /\ base_geral = EmptyBag
Established ==
    /\ dataset = TRUE /\ status_table = TRUE /\ qgc_table = TRUE
    /\ base_geral = PriorLoad

MachineInit ==
    /\ pc = [p \in Invocations |-> "idle"]
    /\ ev = [p \in Invocations |-> 0]
    /\ sh = [p \in Invocations |-> 0]
    /\ now = [p \in Invocations |-> 0]
    /\ err = [p \in Invocations |-> ""]
    /\ audit = [p \in Invocations |-> ""]
    /\ stage = [p \in Invocations |-> EmptyBag]
    /\ clock = 0
    /\ status_rows = EmptyBag
    /\ qgc = EmptyBag
    /\ (Fresh \/ Established)

FrameIdle == grid = <<>> /\ qframe = <<>> /\ bframe = <<>>

WaitIdle == wjob = "" /\ wstate = "" /\ wsleeps = 0 /\ wslept = 0 /\ werr = ""

Init == MachineInit /\ FrameIdle /\ WaitIdle

\* -------------------------------------------------------------- entryPoint
SUCESSO == <<"S","U","C","E","S","S","O">>
ERRO == <<"E","R","R","O">>
Take(s, n) == SubSeq(s, 1, Min(Len(s), n))

\* lines 417-424: the event is read; without bucket or name nothing is done
Start(p) ==
    /\ pc[p] = "idle"
    /\ \A q \in Invocations : q < p => pc[q] # "idle"
    /\ \E e \in DOMAIN Events :
        /\ ev' = [ev EXCEPT ![p] = e]
        /\ pc' = [pc EXCEPT ![p] =
                    IF Events[e].bucket = <<>> \/ Events[e].name = <<>>
                    THEN "done" ELSE "ensure_dataset"]
    /\ UNCHANGED <<sh, now, err, audit, stage, clock, dataset,
                   status_table, status_rows, qgc_table, qgc, base_geral, fvars, wvars>>

\* ensure_dataset: get_dataset, and create_dataset(exists_ok=True) if absent
EnsureDataset(p) ==
    /\ pc[p] = "ensure_dataset"
    /\ dataset' = TRUE
    /\ pc' = [pc EXCEPT ![p] = "status_get"]
    /\ UNCHANGED <<ev, sh, now, err, audit, stage, clock,
                   status_table, status_rows, qgc_table, qgc, base_geral, fvars, wvars>>

\* ensure_status_table, lines 183-186: get_table
StatusGet(p) ==
    /\ pc[p] = "status_get"
    /\ pc' = [pc EXCEPT ![p] = IF status_table THEN Dispatch(Base(p))
                                ELSE "status_create"]
    /\ UNCHANGED <<ev, sh, now, err, audit, stage, clock, dataset,
                   status_table, status_rows, qgc_table, qgc, base_geral, fvars, wvars>>

\* ensure_status_table, lines 187-194: create_table after NotFound; the
\* table may have been created since, and then create_table raises Conflict,
\* which nothing in entryPoint catches
StatusCreate(p) ==
    /\ pc[p] = "status_create"
    /\ IF status_table
       THEN /\ pc' = [pc EXCEPT ![p] = "raised"]
            /\ err' = [err EXCEPT ![p] = "Conflict: status_implantacao"]
            /\ UNCHANGED status_table
       ELSE /\ pc' = [pc EXCEPT ![p] = Dispatch(Base(p))]
            /\ status_table' = TRUE
            /\ UNCHANGED err
    /\ UNCHANGED <<ev, sh, now, audit, stage, clock, dataset,
                   status_rows, qgc_table, qgc, base_geral, fvars, wvars>>

\* ---------------------------------------------------- process_base_fixed
\* lines 254-293: download, read and build the frame
BaseFetch(p) ==
    /\ pc[p] = "base_fetch"
    /\ \E s \in DOMAIN Sheets : sh' = [sh EXCEPT ![p] = s]
    /\ pc' = [pc EXCEPT ![p] = "base_load"]
    /\ UNCHANGED <<ev, now, err, audit, stage, clock, dataset,
                   status_table, status_rows, qgc_table, qgc, base_geral, fvars, wvars>>

\* the download or the parse raises
FetchFails(p) ==
    /\ pc[p] \in {"base_fetch", "qgc_fetch"}
    /\ err' = [err EXCEPT ![p] = "download"]
    /\ pc' = [pc EXCEPT ![p] = "log_err"]
    /\ UNCHANGED <<ev, sh, now, audit, stage, clock, dataset,
                   status_table, status_rows, qgc_table, qgc, base_geral, fvars, wvars>>

BaseRows(p) == BagOfSeq(BaseFrame(Sheets[sh[p]]))

\* (what WRITE_APPEND would do)
LoadAppend(table, rows) == table (+) rows

\* WRITE_TRUNCATE: the table holds the loaded rows and nothing else
LoadTruncate(table, rows) == rows

\* lines 294-304: the load job (WRITE_TRUNCATE, CREATE_IF_NEEDED) succeeds
BaseLoad(p) ==
    /\ pc[p] = "base_load"
    /\ base_geral' = LoadTruncate(base_geral, BaseRows(p))
    /\ pc' = [pc EXCEPT ![p] = "log_ok"]
    /\ UNCHANGED <<ev, sh, now, err, audit, stage, clock, dataset,
                   status_table, status_rows, qgc_table, qgc, fvars, wvars>>

\* wait_job raises (RetryError, once its retries are used up) in one of the
\* three places that wait for a job; the job has changed no table
JobFails(p) ==
    /\ pc[p] \in {"base_load", "stage_load", "txn"}
    /\ err' = [err EXCEPT ![p] = "RetryError"]
    /\ pc' = [pc EXCEPT ![p] = "log_err"]
    /\ UNCHANGED <<ev, sh, now, audit, stage, clock, dataset,
                   status_table, status_rows, qgc_table, qgc, base_geral, fvars, wvars>>

\* ----------------------------------------------- process_qgc_incremental
QgcRows(p) == QgcFrame(Sheets[sh[p]], Base(p), now[p])

\* lines 326-371: now_str, download, read and build the frame; assigning
\* the nine column names raises when the frame has another number of columns
QgcFetch(p) ==
    /\ pc[p] = "qgc_fetch"
    /\ now' = [now EXCEPT ![p] = clock]
    /\ \E s \in DOMAIN Sheets :
        /\ sh' = [sh EXCEPT ![p] = s]
        /\ IF QgcFrame(Sheets[s], Base(p), clock).ok
           THEN /\ pc' = [pc EXCEPT ![p] = "qgc_get"]
                /\ UNCHANGED err
           ELSE /\ pc' = [pc EXCEPT ![p] = "log_err"]
                /\ err' = [err EXCEPT ![p] = "Length mismatch"]
    /\ UNCHANGED <<ev, audit, stage, clock, dataset,
                   status_table, status_rows, qgc_table, qgc, base_geral, fvars, wvars>>

\* ensure_qgc_table, lines 311-320: get_table (a table this code created
\* already has every column of QGC_COLUMNS)
QgcGet(p) ==
    /\ pc[p] = "qgc_get"
    /\ pc' = [pc EXCEPT ![p] = IF qgc_table THEN "stage_load" ELSE "qgc_create"]
    /\ UNCHANGED <<ev, sh, now, err, audit, stage, clock, dataset,
                   status_table, status_rows, qgc_table, qgc, base_geral, fvars, wvars>>

\* ensure_qgc_table, lines 321-323: create_table after NotFound
QgcCreate(p) ==
    /\ pc[p] = "qgc_create"
    /\ IF qgc_table
       THEN /\ pc' = [pc EXCEPT ![p] = "log_err"]
            /\ err' = [err EXCEPT ![p] = "Conflict: qgc"]
            /\ UNCHANGED qgc_table
       ELSE /\ pc' = [pc EXCEPT ![p] = "stage_load"]
            /\ qgc_table' = TRUE
            /\ UNCHANGED err
    /\ UNCHANGED <<ev, sh, now, audit, stage, clock, dataset,
                   status_table, status_rows, qgc, base_geral, fvars, wvars>>

\* lines 374-394: the frame is loaded into the invocation's own staging
\* table (the expiry set afterwards is best effort and changes no row)
StageLoad(p) ==
    /\ pc[p] = "stage_load"
    /\ stage' = [stage EXCEPT ![p] = LoadTruncate(@, BagOfSeq(QgcRows(p).rows))]
    /\ pc' = [pc EXCEPT ![p] = "txn"]
    /\ UNCHANGED <<ev, sh, now, err, audit, clock, dataset,
                   status_table, status_rows, qgc_table, qgc, base_geral, fvars, wvars>>

\* DELETE FROM qgc WHERE NOMEARQUIVO = @file
DeleteFile(table, file) ==
    [r \in {e \in DOMAIN table : e.NOMEARQUIVO # file} |-> table[r]]
\* BEGIN TRANSACTION; DELETE ...; INSERT ... SELECT ... FROM staging; COMMIT
ScopedReplace(table, file, staged) == DeleteFile(table, file) (+) staged

\* lines 396-408: the transaction commits, all of it at once
TxnCommit(p) ==
    /\ pc[p] = "txn"
    /\ qgc' = ScopedReplace(qgc, Join(Base(p)), stage[p])
    /\ pc' = [pc EXCEPT ![p] = "cleanup"]
    /\ UNCHANGED <<ev, sh, now, err, audit, stage, clock, dataset,
                   status_table, status_rows, qgc_table, base_geral, fvars, wvars>>

\* lines 410-413: delete_table(staging); when it fails the exception is
\* printed and the table goes with the expiry set at line 391
Cleanup(p) ==
    /\ pc[p] = "cleanup"
    /\ stage' = [stage EXCEPT ![p] = EmptyBag]
    /\ pc' = [pc EXCEPT ![p] = "log_ok"]
    /\ UNCHANGED <<ev, sh, now, err, audit, clock, dataset,
                   status_table, status_rows, qgc_table, qgc, base_geral, fvars, wvars>>

\* ------------------------------------------------------------ log_status
StatusRow(p, status, mensagem) ==
    [data_envio |-> Join(NowStr(clock)),
     nomearquivo |-> Join(Base(p)),
     status |-> Join(Take(status, 50)),
     mensagem |-> Take(mensagem, 1500)]

\* lines 196-208 as called from lines 433-435 and 442-444: the row is
\* inserted, or the insert raises and the exception is printed
LogStatus(p) ==
    /\ pc[p] \in {"log_ok", "log_err"}
    /\ LET status == IF pc[p] = "log_ok" THEN SUCESSO ELSE ERRO
           mensagem == IF pc[p] = "log_ok" THEN "implementado com sucesso" ELSE err[p]
       IN  \/ /\ status_rows' = status_rows (+) SetToBag({StatusRow(p, status, mensagem)})
              /\ audit' = [audit EXCEPT ![p] = Join(status)]
           \/ /\ UNCHANGED status_rows
              /\ audit' = [audit EXCEPT ![p] = "lost"]
    /\ pc' = [pc EXCEPT ![p] = "done"]
    /\ UNCHANGED <<ev, sh, now, err, stage, clock, dataset,
                   status_table, qgc_table, qgc, base_geral, fvars, wvars>>

\* the wall clock advances
Tick ==
    /\ clock < MaxClock
    /\ clock' = clock + 1
    /\ UNCHANGED <<pc, ev, sh, now, err, audit, stage, dataset,
                   status_table, status_rows, qgc_table, qgc, base_geral, fvars, wvars>>

Next ==
    \/ Tick
    \/ \E p \in Invocations :
        \/ Start(p) \/ EnsureDataset(p) \/ StatusGet(p) \/ StatusCreate(p)
        \/ BaseFetch(p) \/ FetchFails(p) \/ BaseLoad(p) \/ JobFails(p)
        \/ QgcFetch(p) \/ QgcGet(p) \/ QgcCreate(p) \/ StageLoad(p)
        \/ TxnCommit(p) \/ Cleanup(p) \/ LogStatus(p)

Spec == Init /\ [][Next]_vars
\* ------------------------------------------------- wait_job, step by step
\* One wait_job(job): job.result() is called, and called again after a
\* sleep for as long as _default_retry allows.
Jobs == {"base_load", "stage_load", "txn"}
\* what job.result() may raise: only the transaction meets contention
Raises(job) == IF job = "txn" THEN {"contention", "other"} ELSE {"other"}

WaitInit ==
    /\ wjob \in Jobs
    /\ wstate = "call" /\ wsleeps = 0 /\ wslept = 0 /\ werr = ""

WjReturns ==
    /\ wstate = "call"
    /\ wstate' = "returned"
    /\ UNCHANGED <<wjob, wsleeps, wslept, werr, mvars, fvars>>

WjRaises ==
    /\ wstate = "call"
    /\ \E kind \in Raises(wjob) :
        /\ werr' = kind
        /\ wstate' = IF Retryable(kind) /\ CanRetry(wsleeps) THEN "sleep" ELSE "raised"
    /\ UNCHANGED <<wjob, wsleeps, wslept, mvars, fvars>>

WjSleep ==
    /\ wstate = "sleep"
    /\ wslept' = wslept + Delay(wsleeps)
    /\ wsleeps' = wsleeps + 1
    /\ wstate' = "call"
    /\ UNCHANGED <<wjob, werr, mvars, fvars>>

NextWait == WjReturns \/ WjRaises \/ WjSleep

InitWait == MachineInit /\ Fresh /\ FrameIdle /\ WaitInit

SpecWait == InitWait /\ [][NextWait]_vars

\* ------------------------------------------------- the frames, sheet by sheet
\* The frame builders applied to generated sheets: w columns, a first row of
\* one kind, d data rows, optionally a blank row below the first row and one
\* column left empty in every data row.
Widths == {2, 3, 8, 9, 10, Len(BASE_FIXED_COLUMNS), Len(BASE_FIXED_COLUMNS) + 1}
FirstKinds == {"text", "number", "blank", "mixed"}

FirstCell(kind, c) ==
    CASE kind = "text" -> Cell(1, c)
      [] kind = "number" -> Int_(c)
      [] kind = "blank" -> NaN
      [] kind = "mixed" -> IF c <= 2 THEN Cell(1, c) ELSE Int_(c)

GenSheet(w, kind, d, gap, hole) ==
    <<[c \in 1..w |-> FirstCell(kind, c)]>>
    \o (IF gap THEN <<[c \in 1..w |-> NaN]>> ELSE <<>>)
    \o [r \in 1..d |-> [c \in 1..w |-> IF c = hole THEN NaN ELSE Cell(r + 1, c)]]

GenSheets ==
    {<<>>} \cup
    {GenSheet(w, kind, d, gap, hole) :
        w \in Widths, kind \in FirstKinds, d \in 0..MaxDataRows,
        gap \in BOOLEAN, hole \in 0..10}

FrameName == <<"a">> \o XLSX

FrameInit == grid \in GenSheets /\ qframe = <<>> /\ bframe = <<>>

ApplyQgc ==
    /\ qframe = <<>>
    /\ qframe' = <<QgcFrame(grid, FrameName, 0)>>
    /\ UNCHANGED <<grid, bframe, mvars, wvars>>

ApplyBase ==
    /\ bframe = <<>>
    /\ bframe' = <<BaseFrame(grid)>>
    /\ UNCHANGED <<grid, qframe, mvars, wvars>>

NextFrame == ApplyQgc \/ ApplyBase

InitFrame == MachineInit /\ Fresh /\ WaitIdle /\ FrameInit

SpecFrame == InitFrame /\ [][NextFrame]_vars
\* ===================================================================
\* The claims
\* ===================================================================

\* the data rows of a ledger sheet: what is left below the first row once
\* the blank rows are gone
QgcData(g) ==
    LET rows == DropBlankRows(Infer(g))
    IN  IF rows = <<>> THEN rows ELSE Tail(rows)

\* where the k-th canonical data field comes from in a row of w columns
QgcExpected(row, w, k) ==
    IF w = QGC_BASE_CNT THEN to_str_or_none(row[k])
    ELSE IF k < 5 THEN to_str_or_none(row[k])
    ELSE IF k = 5 THEN NULL
    ELSE to_str_or_none(row[k - 1])

\* C8: in every frame built from a ledger sheet of 8 or 9 data columns each
\* source column lands in its own canonical field: with 8 columns SUBCLASSE
\* is null and the other eight fields are filled in order, with 9 columns
\* the fields are filled position by position.
C8_ColumnsLandInOwnField ==
    \A i \in DOMAIN qframe :
        (Width(grid) \in {QGC_BASE_CNT - 1, QGC_BASE_CNT} /\ qframe[i].ok) =>
            /\ Len(qframe[i].rows) = Len(QgcData(grid))
            /\ \A r \in DOMAIN qframe[i].rows : \A k \in 1..QGC_BASE_CNT :
                  qframe[i].rows[r][QGC_COLUMNS[k]]
                      = QgcExpected(QgcData(grid)[r], Width(grid), k)

\* the cells of the first row that are text with a letter in it
AlphaCells(row) ==
    Cardinality({i \in DOMAIN row :
        row[i].k = "str" /\ \E j \in DOMAIN row[i].v : IsAlpha(row[i].v[j])})

\* the claim's test: fewer than max(3, 40% of the cells) are alphabetic text
FewAlphaCells(g) ==
    g # <<>> /\ AlphaCells(g[1]) < Max(3, (Len(g[1]) * 4) \div 10)

\* row r of the sheet, column by column in the canonical fields, padded
\* with nulls and cut at len(BASE_FIXED_COLUMNS)
Positional(row) ==
    [t \in DOMAIN BASE_FIXED_COLUMNS |->
        IF t <= Len(row) THEN to_str_or_none(row[t]) ELSE NULL]

\* C9 as stated: without a header row the first row is discarded as a
\* caption and the remaining rows are loaded position by position.
C9_FirstRowDiscarded ==
    \A i \in DOMAIN bframe :
        FewAlphaCells(grid) =>
            LET rows == DropBlankRows(Infer(grid))
                rest == IF rows = <<>> THEN rows ELSE Tail(rows)
            IN  /\ Len(bframe[i]) = Len(rest)
                /\ \A r \in DOMAIN rest : bframe[i][r] = Positional(rest[r])

\* C9 as amended: when the labels read from the first row (a blank cell is
\* labelled "Unnamed: n", which counts as text) are not classified as a
\* header, every row that is not blank, the first row included, is loaded
\* position by position, padded with nulls and cut after the last field.
C9_HeaderlessPositional ==
    \A i \in DOMAIN bframe :
        ~_looks_like_header(HeaderLabels(grid)) =>
            LET kept == SelectSeq(Infer(grid), NotBlankRow)
            IN  /\ Len(bframe[i]) = Len(kept)
                /\ \A r \in DOMAIN kept : bframe[i][r] = Positional(kept[r])

\* a sheet wider than the field list, without a header row, whose first row
\* is in the table next to a data row
C9_Witness ==
    /\ bframe # <<>>
    /\ ~_looks_like_header(HeaderLabels(grid))
    /\ Width(grid) > Len(BASE_FIXED_COLUMNS)
    /\ Len(bframe[1]) >= 2
    /\ bframe[1][1][1] = to_str_or_none(grid[1][1])
    /\ bframe[1][1][1] # NULL

\* ---------------------------------------------------- the entry point's claims
HasKeys(p) == ev[p] # 0 /\ Events[ev[p]].bucket # <<>> /\ Events[ev[p]].name # <<>>
IsMasterInv(p) == HasKeys(p) /\ IsBase(Base(p))
IsLedgerInv(p) == HasKeys(p) /\ ~IsBase(Base(p)) /\ IsXlsx(Base(p))
RowsNamed(table, n) == [r \in {e \in DOMAIN table : e.NOMEARQUIVO = n} |-> table[r]]
\* the step in which the transaction of p commits
Commits(p) == pc[p] = "txn" /\ pc'[p] = "cleanup"
\* the step in which the load job of the master ingestion p succeeds
Loads(p) == pc[p] = "base_load" /\ pc'[p] = "log_ok"

\* C1: at any time the rows of qgc under one NOMEARQUIVO value are one
\* generation: exactly the rows one invocation staged, never rows of two.
C1_OneGenerationPerName ==
    \A n \in {r.NOMEARQUIVO : r \in DOMAIN qgc} :
        \E p \in Invocations :
            /\ IsLedgerInv(p) /\ sh[p] # 0
            /\ RowsNamed(qgc, n) = BagOfSeq(QgcRows(p).rows)

\* C2: when an ingestion of file name F commits, the rows of qgc with
\* NOMEARQUIVO = F are exactly the rows that ingestion staged (so the same
\* content twice leaves what it left once).
C2_LatestIngestionOnly ==
    [][\A p \in Invocations :
         Commits(p) => RowsNamed(qgc', Join(Base(p))) = stage[p]]_vars

\* C3: a row of qgc changes its number of copies only in the commit of an
\* ingestion whose file name is the row's NOMEARQUIVO.
C3_OnlyOwnPartition ==
    [][\A r \in DOMAIN qgc \cup DOMAIN qgc' :
         CopiesIn(r, qgc') # CopiesIn(r, qgc) =>
            \E p \in Invocations : Commits(p) /\ r.NOMEARQUIVO = Join(Base(p))]_vars

\* C4: a step in which a master load succeeds leaves in base_geral exactly
\* the rows of that file; every other step, the failures of a master
\* ingestion among them, leaves base_geral as it was.
C4_MasterReplacedOrKept ==
    [][/\ \A p \in Invocations : Loads(p) => base_geral' = BaseRows(p)
       /\ (\A p \in Invocations : ~Loads(p)) => base_geral' = base_geral]_vars

\* one master ingestion has succeeded and another has failed at its load
\* job; the table holds the rows of the first and none of an earlier load
C4_Witness ==
    \E p, q \in Invocations :
        /\ IsMasterInv(p) /\ audit[p] = "SUCESSO"
        /\ IsMasterInv(q) /\ audit[q] = "ERRO" /\ err[q] = "RetryError"
        /\ BaseRows(q) # BaseRows(p)
        /\ base_geral = BaseRows(p)
        /\ base_geral # EmptyBag
        /\ \A r \in DOMAIN PriorLoad : ~BagIn(r, base_geral)

\* the spec's validation of a ledger sheet: something is left once the
\* blank rows are gone, and the first row is one of the two accepted orders
QgcValid(g) ==
    /\ DropBlankRows(g) # <<>>
    /\ g[1] \in {QgcHeader, Without(QgcHeader, 5)}

\* C6: a ledger file that fails validation never gets its transaction
\* committed and ends with an ERRO record, not with SUCESSO.
C6_InvalidLedgerRejected ==
    \A p \in Invocations :
        (IsLedgerInv(p) /\ sh[p] # 0 /\ ~QgcValid(Sheets[sh[p]])) =>
            /\ pc[p] \notin {"cleanup", "log_ok"}
            /\ audit[p] # "SUCESSO"

\* C7: preparing or writing the status table never makes entryPoint raise
\* (which would also keep the ingestion from running), and a status row
\* that could not be written leaves the invocation finished as usual.
C7_AuditNeverAltersFlow ==
    \A p \in Invocations :
        /\ pc[p] # "raised"
        /\ audit[p] = "lost" => pc[p] = "done"

Prelude == {"ensure_dataset", "status_get", "status_create"}
MasterPcs == {"base_fetch", "base_load"}
LedgerPcs == {"qgc_fetch", "qgc_get", "qgc_create", "stage_load", "txn", "cleanup"}
Ending == {"log_ok", "log_err", "done", "raised"}

\* C10: an event without bucket or name does nothing; base_legal.xlsx and
\* base_geral.xlsx (basename, any case) run the master policy only; any
\* other basename ending in .xlsx runs the ledger policy only; every other
\* name is ignored: no error, no table written, no status row.
C10_RoutingByBasename ==
    \A p \in Invocations : ev[p] # 0 =>
        LET e == Events[ev[p]]
            b == Lower(Basename(e.name))
        IN  IF e.bucket = <<>> \/ e.name = <<>>
            THEN pc[p] = "done" /\ audit[p] = "" /\ sh[p] = 0
            ELSE IF b \in {BASE_LEGAL, BASE_GERAL}
            THEN pc[p] \in Prelude \cup MasterPcs \cup Ending
            ELSE IF EndsWith(b, XLSX)
            THEN pc[p] \in Prelude \cup LedgerPcs \cup Ending
            ELSE /\ pc[p] \in Prelude \cup {"done"}
                 /\ audit[p] = "" /\ sh[p] = 0

\* C5: the wait for the transaction sleeps and calls again only after a
\* contention error, any other error ends it at once, and the sleeps stay
\* within the cap and the deadline.
C5_RetryOnlyOnContention ==
    wjob = "txn" =>
        /\ wstate = "sleep" => werr = "contention"
        /\ werr = "other" => wstate = "raised"
        /\ wslept <= RetryDeadline
        /\ wsleeps > 0 => Delay(wsleeps - 1) <= RetryMaximum
====
